---- MODULE Spec2Model ----
(***************************************************************************)
(* Model of the batch-conversion scheduler of rom_converter.py:            *)
(* ROMConverter.start_conversion / conversion_thread / process_single_file *)
(* / convert_game and the progress ledger (load/save/clear_progress).      *)
(*                                                                         *)
(* Spec is the program; SpecLive is the program under fair scheduling and  *)
(* without process kills; SpecSizing, SpecGate and SpecDetect study the    *)
(* sizing of the pool, _wait_for_memory_pressure and detect_iso_system     *)
(* alone, over all their inputs.                                           *)
(*                                                                         *)
(* A path is a record [d, b, e]: d is the number of "original_backup"      *)
(* folders between the source directory and the file, b the file's stem    *)
(* and e its suffix.  str(path), the form stored in the ledger, is the     *)
(* tuple <<d, b, e>>.                                                      *)
(***************************************************************************)
EXTENDS Integers, Sequences, FiniteSets, TLC

\* ---------------------------------------------------------------- bounds
MaxBatches == 2        \* start_conversion calls in one behaviour
MaxRestarts == 1       \* process kills followed by a relaunch
TotalCores == 3        \* multiprocessing.cpu_count() of the machine
TotalRamGB == 8        \* psutil.virtual_memory().total in GB
MaxCoreCount == 6      \* largest cpu_count() of the sizing calls studied alone

G1Cue == [d |-> 0, b |-> "g1", e |-> "cue"]
G1Iso == [d |-> 0, b |-> "g1", e |-> "iso"]
G2Cue == [d |-> 0, b |-> "g2", e |-> "cue"]
MemSamples == {50, 80, 92}
CpuSamples == {10, 85, 96}

\* ------------------------------------------------------- program constants
ram_threshold_percent == 90
cpu_threshold_percent == 95
ram_critical_percent == 95
max_wait == 60         \* _wait_for_memory_pressure(max_wait=60), seconds
wait_interval == 2     \* seconds slept between two samples
NoBatch == 0           \* current_batch_id = None
NoFile == [exists |-> FALSE]
NoCall == [op |-> "none"]

\* a user configuration (the check boxes and formats read by the batch) and
\* the environment it runs in: psutil importable, what detect_iso_system
\* answers for the ISO, whether a stat() can raise, the outcomes a converter
\* run can have, whether an access to the ledger file can fail, and the
\* rom_converter_config.json found at launch
NoConfig == [exists |-> FALSE]
Defaults == [recursive |-> TRUE, delete_originals |-> FALSE, move_to_backup |-> TRUE,
             process_ps1_cues |-> TRUE, process_ps2_cues |-> FALSE,
             process_ps2_isos |-> TRUE, process_psp_isos |-> FALSE,
             ps2_output_format |-> "CHD", psp_output_format |-> "CSO",
             chdman_path |-> TRUE, maxcso_path |-> TRUE,
             psutil |-> TRUE, system_guess |-> "None",
             stat_raises |-> TRUE, run_outcomes |-> {"ok", "empty", "fail", "partial"},
             ledger_io_fails |-> TRUE, config_file |-> NoConfig]

\* the scenarios a behaviour starts from: the settings and the source directory
Scenarios ==
    { [cfg |-> Defaults, files |-> {G1Cue}],
      [cfg |-> [Defaults EXCEPT !.move_to_backup = FALSE, !.ledger_io_fails = FALSE,
                                !.run_outcomes = {"ok", "partial"}],
       files |-> {G1Cue, G1Iso}],
      [cfg |-> [Defaults EXCEPT !.move_to_backup = FALSE, !.delete_originals = TRUE],
       files |-> {G2Cue}],
      [cfg |-> [Defaults EXCEPT !.recursive = FALSE, !.stat_raises = FALSE,
                                !.run_outcomes = {"ok"}],
       files |-> {G1Cue, G2Cue}],
      [cfg |-> [Defaults EXCEPT !.move_to_backup = FALSE, !.ps2_output_format = "CSO"],
       files |-> {G1Iso}],
      [cfg |-> [Defaults EXCEPT !.move_to_backup = FALSE, !.process_psp_isos = TRUE,
                                !.system_guess = "PSP", !.psutil = FALSE],
       files |-> {G1Iso}],
      [cfg |-> [Defaults EXCEPT !.move_to_backup = FALSE, !.process_ps2_isos = FALSE,
                                !.process_psp_isos = TRUE, !.maxcso_path = FALSE],
       files |-> {G1Iso}],
      [cfg |-> [Defaults EXCEPT !.move_to_backup = FALSE, !.ps2_output_format = "ZSO",
                                !.maxcso_path = FALSE],
       files |-> {G1Iso}],
      [cfg |-> [Defaults EXCEPT !.move_to_backup = FALSE, !.stat_raises = FALSE,
                                !.run_outcomes = {"ok", "fail"}, !.ledger_io_fails = FALSE,
                                !.config_file = [exists |-> TRUE,
                                                 max_concurrent_conversions |-> 0]],
       files |-> {G2Cue}] }

VARIABLES
    cfg,                        \* the user's settings (fixed in a behaviour)
    fs,                         \* files on disk
    ledger_file,                \* .rom_converter_progress.json
    completed_files,            \* self.completed_files
    current_batch_id,           \* self.current_batch_id
    is_converting,              \* self.is_converting
    max_concurrent_conversions, \* self.max_concurrent_conversions
    max_workers,                \* self.max_workers
    convert_button,             \* state of the Convert button ("normal" = TRUE)
    stop_button,                \* state of the Stop button
    complete_pending,           \* master.after(0, conversion_complete) queued
    ct_pc,                      \* position of conversion_thread
    game_files,                 \* local game_files (after the filter)
    original_count, skipped_count, total,
    successful, failed, completed,
    job_pc,                     \* per submitted job: position of its future
    job_res,                    \* per submitted job: result of its future
    consumed,                   \* futures already yielded by as_completed
    stopped,                    \* the dispatcher loop took the break
    nbatch, nrestart,
    h_discovered,               \* history: find_game_files result of the batch
    h_ledger,                   \* history: completed_files at filter time
    h_invoked,                  \* history: jobs whose converter was invoked
    h_conv_ok,                  \* history: jobs whose converter run succeeded
    h_savefail,                 \* history: jobs whose ledger write failed
    h_written,                  \* history: strings written to the ledger file
    h_counted,                  \* history: jobs counted in successful
    h_pending,                  \* history: jobs queued when stop was pressed
    h_posted,                   \* history: jobs whose post-success action ran
    h_last,                     \* history: how the latest finished batch ended
    h_prev,                     \* history: h_last when the current batch started
    h_resume                    \* history: the interrupted batch a restart resumes
                                \* (M discovered, N of them in the ledger file, every
                                \* ledger write of the batch having succeeded)
VARIABLES
    total_original_size,        \* self.total_original_size
    total_chd_size,             \* self.total_chd_size
    job_tmp,                    \* per job: the value a "+=" has loaded and not yet stored
    job_snap,                   \* per job: the local "data" of save_progress
    h_skipped,                  \* history: jobs that took the "already exists" return
    h_emptyok,                  \* history: jobs whose converter exited 0 with an empty output
    h_readfail,                 \* history: load_progress of this launch failed
    pf                          \* the call under study of the pure-function specifications
VARIABLES
    scan_button,                \* state of the Scan button
    h_failed,                   \* history: str(path) of the jobs whose latest converter
                                \* run, in this or an earlier batch, failed
    h_latestart                 \* history: jobs whose converter is running and was
                                \* invoked while is_converting was False

mainVars == << cfg, fs, ledger_file, completed_files, current_batch_id, is_converting,
           max_concurrent_conversions, max_workers, convert_button, stop_button,
           complete_pending, ct_pc, game_files, original_count, skipped_count,
           total, successful, failed, completed, job_pc, job_res, consumed,
           stopped, nbatch, nrestart, h_discovered, h_ledger, h_invoked,
           h_conv_ok, h_savefail, h_written, h_counted, h_pending, h_posted,
           h_last, h_prev, h_resume, total_original_size, total_chd_size, job_tmp,
           job_snap, h_skipped, h_emptyok, h_readfail, scan_button, h_failed,
           h_latestart >>
vars == << mainVars, pf >>

totalsVars == << total_original_size, total_chd_size >>
localVars == << job_tmp, job_snap >>
uiVars == << convert_button, stop_button, complete_pending, scan_button >>
countVars == << original_count, skipped_count, total, successful, failed, completed >>
histVars == << h_discovered, h_ledger, h_invoked, h_conv_ok, h_savefail, h_written,
               h_counted, h_pending, h_posted, h_last, h_prev, h_resume, h_skipped,
               h_emptyok, h_readfail, h_failed, h_latestart >>

\* ------------------------------------------------------------ pure helpers
Min(a, b) == IF a < b THEN a ELSE b
Max(a, b) == IF a > b THEN a ELSE b

\* str(path)
Str(p) == << p.d, p.b, p.e >>

\* path.with_suffix(ext)
WithSuffix(p, ext) == [p EXCEPT !.e = ext]

\* order of pathlib paths under one root: component by component, so a file
\* of a folder sorts before the files of its "original_backup" subfolder
ExtRank(e) == CASE e = "cue" -> 0 [] e = "iso" -> 1 [] OTHER -> 2
BaseRank(b) == IF b = "g1" THEN 0 ELSE 1
PathKey(p) == p.d * 100 + BaseRank(p.b) * 10 + ExtRank(p.e)

RECURSIVE Sorted(_)
Sorted(S) == IF S = {} THEN << >>
             ELSE LET m == CHOOSE x \in S : \A y \in S : PathKey(x) <= PathKey(y)
                  IN  << m >> \o Sorted(S \ {m})

Range(s) == { s[i] : i \in DOMAIN s }

\* find_game_files
find_game_files(files, c) ==
    LET wanted == (IF c.process_ps1_cues \/ c.process_ps2_cues THEN {"cue"} ELSE {})
                  \cup (IF c.process_ps2_isos \/ c.process_psp_isos THEN {"iso"} ELSE {})
    IN  Sorted({ p \in files : p.e \in wanted /\ (c.recursive \/ p.d = 0) })

\* the resume filter of conversion_thread
ResumeFilterAll(gf, done) == gf
ResumeFilter(gf, done) == SelectSeq(gf, LAMBDA f : Str(f) \notin done)

\* convert_game: an ISO is converted as a PSP image (with at least one of
\* the two ISO categories enabled) ...
treat_psp(psp, ps2, guess) ==
    IF psp /\ ~ps2 THEN TRUE
    ELSE IF ps2 /\ ~psp THEN FALSE
    ELSE guess = "PSP"

\* ... and the "Could not determine system ... defaulting to PS2" warning
default_warning(psp, ps2, guess) == psp /\ ps2 /\ guess \notin {"PSP", "PlayStation 2"}

\* convert_game: the suffix of the output file ("none": unsupported)
OutputExt(p, c) ==
    IF p.e = "cue" THEN "chd"
    ELSE IF p.e = "iso" THEN
        LET psp == c.process_psp_isos
            ps2 == c.process_ps2_isos
        IN  IF ~psp /\ ~ps2 THEN "none"
            ELSE LET as_psp == treat_psp(psp, ps2, c.system_guess)
                     fmt == IF as_psp THEN c.psp_output_format ELSE c.ps2_output_format
                 IN  CASE fmt = "CHD" /\ ~as_psp -> "chd"
                       [] fmt = "CSO" -> "cso"
                       [] fmt = "ZSO" -> "zso"
                       [] OTHER -> "none"
    ELSE "none"

OutputPath(p, c) == WithSuffix(p, OutputExt(p, c))

\* the converter binary of the command line is configured
ToolConfigured(p, c) == IF OutputExt(p, c) = "chd" THEN c.chdman_path ELSE c.maxcso_path

\* check_system_resources
check_system_resources_strict(cpu_cores, c, mem, cpu) ==
    IF ~c.psutil THEN cpu_cores
    ELSE IF mem > ram_threshold_percent THEN Max(1, cpu_cores \div 2)
    ELSE IF cpu > cpu_threshold_percent THEN Max(1, cpu_cores \div 2)
    ELSE IF mem > 75 \/ cpu > 80 THEN Max(1, (cpu_cores * 3) \div 4)
    ELSE cpu_cores
check_system_resources(cpu_cores, c, mem, cpu) ==
    IF ~c.psutil THEN cpu_cores
    ELSE IF mem >= ram_threshold_percent THEN Max(1, cpu_cores \div 2)
    ELSE IF cpu >= cpu_threshold_percent THEN Max(1, cpu_cores \div 2)
    ELSE IF mem >= 75 \/ cpu >= 80 THEN Max(1, (cpu_cores * 3) \div 4)
    ELSE cpu_cores

\* __init__: self.cpu_cores, one core kept free
cpu_cores_of(total_cores) == Max(1, total_cores - 1)
CpuCores == cpu_cores_of(TotalCores)

\* conversion_thread: self.max_workers of the batch
EffectiveWorkersUnlimited(limit, resource_limit) == resource_limit
EffectiveWorkers(limit, resource_limit) == Min(limit, resource_limit)

\* _detect_optimal_workers
detect_optimal_workers(c) ==
    IF c.psutil THEN Min(Min(Max(1, TotalCores - 1), Max(1, TotalRamGB \div 4)), 8)
    ELSE IF TotalCores >= 8 THEN 4 ELSE IF TotalCores >= 4 THEN 2 ELSE 1

\* load_config: self.max_concurrent_conversions after __init__; the value of
\* the file is taken as it is
load_config(c) ==
    IF c.config_file.exists THEN c.config_file.max_concurrent_conversions
    ELSE detect_optimal_workers(c)

\* ThreadPoolExecutor(max_workers=n) raises ValueError unless n > 0
ExecutorAcceptsAny(n) == TRUE
ExecutorAccepts(n) == n > 0

\* the Convert button invokes its command only in state "normal"
ButtonInvokesAlways(state) == TRUE
ButtonInvokes(state) == state

\* the first check of process_single_file
StartCheckNone(converting) == TRUE
StartCheck(converting) == converting

\* capacity of the ThreadPoolExecutor of the batch
PoolLimitLive == max_concurrent_conversions
PoolLimit == max_workers

\* the record save_progress writes
SavedDataStale(bid, done) == [exists |-> TRUE, batch_id |-> bid, completed_files |-> {}]
SavedData(bid, done) == [exists |-> TRUE, batch_id |-> bid, completed_files |-> done]

\* the condition under which conversion_thread clears the ledger at its end
ShouldClearAlways(f, t, s) == TRUE
ShouldClear(f, t, s) == f = 0 \/ t = s

\* the tally of one future's result in the dispatcher loop: <<successful, failed, completed>>
TallyDrop(res, s, f, c) ==
    CASE res = "True" -> << s + 1, f, c + 1 >>
      [] res = "False" -> << s, f, c + 1 >>
      [] res = "exc" -> << s, f + 1, c >>
      [] OTHER -> << s, f, c >>
Tally(res, s, f, c) ==
    CASE res = "True" -> << s + 1, f, c + 1 >>
      [] res = "False" -> << s, f + 1, c + 1 >>
      [] res = "exc" -> << s, f + 1, c >>
      [] OTHER -> << s, f, c >>

\* convert_game, line 3604: "result.returncode == 0 and output_path.exists()"
\* over the outcomes of a converter run
RunSucceeded(outcome) == outcome \in {"ok", "empty"}

\* convert_game: original_size of a descriptor (stat of the file and of the
\* files it references) and new_size of the output (0 when it is empty)
original_size(p) == IF p.e = "iso" THEN 4 ELSE IF p.b = "g1" THEN 1 ELSE 2
new_size(empty) == IF empty THEN 0 ELSE 1

\* the value convert_game returns after save_progress, whether the write
\* succeeded or its exception was caught and logged
SaveResultRaise(ok) == IF ok THEN "True" ELSE "exc"
SaveResult(ok) == "True"

Jobs == DOMAIN job_pc
ActivePcs == {"gate", "conv", "run", "ld1", "st1", "ld2", "st2", "mark", "save", "write",
              "post"}
Active == { j \in Jobs : job_pc[j] \in ActivePcs }
NoJobs == << >>

\* ------------------------------------------------------------------- Init
\* the attributes after __init__, on a source directory without a ledger
Constructed ==
    /\ \E sc \in Scenarios : cfg = sc.cfg /\ fs = sc.files
    /\ ledger_file = NoFile
    /\ completed_files = {}
    /\ current_batch_id = NoBatch
    /\ is_converting = FALSE
    /\ max_concurrent_conversions = load_config(cfg)
    /\ max_workers = CpuCores
    /\ convert_button = FALSE
    /\ scan_button = TRUE
    /\ stop_button = FALSE
    /\ complete_pending = FALSE
    /\ ct_pc = "idle"
    /\ game_files = << >>
    /\ original_count = 0 /\ skipped_count = 0 /\ total = 0
    /\ successful = 0 /\ failed = 0 /\ completed = 0
    /\ job_pc = NoJobs /\ job_res = NoJobs
    /\ consumed = {}
    /\ stopped = FALSE
    /\ nbatch = 0 /\ nrestart = 0
    /\ h_discovered = {} /\ h_ledger = {} /\ h_invoked = {} /\ h_conv_ok = {}
    /\ h_savefail = {} /\ h_written = {} /\ h_counted = {} /\ h_pending = {}
    /\ h_posted = {}
    /\ h_last = "none"
    /\ h_prev = "none"
    /\ h_resume = [on |-> FALSE, M |-> 0, N |-> 0]
    /\ total_original_size = 0 /\ total_chd_size = 0
    /\ job_tmp = NoJobs /\ job_snap = NoJobs
    /\ h_skipped = {} /\ h_emptyok = {}
    /\ h_readfail = FALSE
    /\ h_failed = {} /\ h_latestart = {}

Init ==
    /\ Constructed
    /\ pf = NoCall

\* ---------------------------------------------------------------- ledger
\* clear_progress: <<ledger_file, completed_files, current_batch_id>> after it
clear_progress(file, done, bid) ==
    IF file.exists THEN << NoFile, {}, NoBatch >> ELSE << file, done, bid >>

\* load_progress, on the attributes __init__ has just set; a file that
\* cannot be opened or parsed raises, and the handler sets the empty set
load_progress(file, readable) ==
    IF file.exists /\ readable THEN << file.completed_files, file.batch_id >>
    ELSE << {}, NoBatch >>

\* move_to_backup_folder: where the descriptor ends up
BackupDest(p) == [p EXCEPT !.d = p.d + 1]

\* ------------------------------------------------------------ UI handlers
\* The source directory holds no archive, so the extraction pass of
\* conversion_thread finds nothing to do.  A declined "Confirm Deletion"
\* dialog returns without a state change and is the stuttering step.
start_conversion ==
    /\ ButtonInvokes(convert_button)
    /\ nbatch < MaxBatches
    /\ ~(cfg.delete_originals /\ cfg.move_to_backup)
    /\ ~(cfg.process_ps2_isos /\ cfg.ps2_output_format \in {"CSO", "ZSO"} /\ ~cfg.maxcso_path)
    /\ current_batch_id' = nbatch + 1
    /\ nbatch' = nbatch + 1
    /\ is_converting' = TRUE
    /\ convert_button' = FALSE
    /\ scan_button' = FALSE
    /\ stop_button' = TRUE
    /\ ct_pc' = "discover"
    /\ game_files' = << >>
    /\ original_count' = 0 /\ skipped_count' = 0 /\ total' = 0
    /\ successful' = 0 /\ failed' = 0 /\ completed' = 0
    /\ job_pc' = NoJobs /\ job_res' = NoJobs
    /\ consumed' = {}
    /\ stopped' = FALSE
    /\ h_discovered' = {} /\ h_ledger' = {} /\ h_invoked' = {} /\ h_conv_ok' = {}
    /\ h_savefail' = {} /\ h_written' = {} /\ h_counted' = {} /\ h_pending' = {}
    /\ h_posted' = {} /\ h_skipped' = {} /\ h_emptyok' = {} /\ h_latestart' = {}
    /\ h_prev' = h_last
    /\ h_resume' = IF ct_pc = "idle" THEN h_resume ELSE [on |-> FALSE, M |-> 0, N |-> 0]
    /\ job_tmp' = NoJobs /\ job_snap' = NoJobs
    /\ UNCHANGED << cfg, pf, totalsVars, fs, ledger_file, completed_files,
                    max_concurrent_conversions, max_workers, complete_pending, nrestart,
                    h_last, h_readfail, h_failed >>

stop_conversion ==
    /\ stop_button
    /\ is_converting' = FALSE
    /\ stop_button' = FALSE
    /\ h_pending' = IF ct_pc = "run" THEN { j \in Jobs : job_pc[j] = "queued" } ELSE h_pending
    /\ UNCHANGED << cfg, pf, totalsVars, localVars,
                    fs, ledger_file, completed_files, current_batch_id,
                    max_concurrent_conversions, max_workers, convert_button, scan_button,
                    complete_pending, ct_pc, game_files, countVars, job_pc, job_res,
                    consumed, stopped, nbatch, nrestart, h_discovered, h_ledger,
                    h_invoked, h_conv_ok, h_savefail, h_written, h_counted, h_posted,
                    h_last, h_prev, h_resume, h_skipped, h_emptyok,
                    h_readfail, h_failed,
                    h_latestart >>

conversion_complete ==
    /\ complete_pending
    /\ complete_pending' = FALSE
    /\ convert_button' = TRUE
    /\ scan_button' = TRUE
    /\ stop_button' = FALSE
    /\ UNCHANGED << cfg, pf, totalsVars, localVars,
                    fs, ledger_file, completed_files, current_batch_id, is_converting,
                    max_concurrent_conversions, max_workers, ct_pc, game_files, countVars,
                    job_pc, job_res, consumed, stopped, nbatch, nrestart, histVars >>

\* scan_directory, on a valid source directory without archives: the Convert
\* button is enabled when find_game_files returns something (a scan that
\* leaves the button as it was is the stuttering step)
scan_directory ==
    /\ scan_button
    /\ convert_button' = (Len(find_game_files(fs, cfg)) > 0)
    /\ convert_button' # convert_button
    /\ UNCHANGED << cfg, pf, totalsVars, localVars,
                    fs, ledger_file, completed_files, current_batch_id, is_converting,
                    max_concurrent_conversions, max_workers, stop_button, complete_pending,
                    scan_button, ct_pc, game_files, countVars, job_pc, job_res, consumed,
                    stopped, nbatch, nrestart, histVars >>

on_concurrent_change ==
    \E v \in 1..TotalCores :
        /\ v # max_concurrent_conversions
        /\ max_concurrent_conversions' = v
        /\ UNCHANGED << cfg, pf, totalsVars, localVars,
                        fs, ledger_file, completed_files, current_batch_id,
                        is_converting, max_workers, uiVars, ct_pc, game_files, countVars,
                        job_pc, job_res, consumed, stopped, nbatch, nrestart, histVars >>

\* ------------------------------------------------------- conversion_thread
\* discovery, the resume filter and the "nothing to do" return
CT_Discover ==
    /\ ct_pc = "discover"
    /\ LET found == find_game_files(fs, cfg)
           kept == ResumeFilter(found, completed_files)
           skipped == Len(found) - Len(kept)
           cleared == IF Len(kept) = 0 /\ skipped > 0
                      THEN clear_progress(ledger_file, completed_files, current_batch_id)
                      ELSE << ledger_file, completed_files, current_batch_id >>
       IN  /\ game_files' = kept
           /\ original_count' = Len(found)
           /\ skipped_count' = skipped
           /\ total' = Len(kept)
           /\ completed' = 0
           /\ h_discovered' = Range(found)
           /\ h_ledger' = completed_files
           /\ ledger_file' = cleared[1]
           /\ completed_files' = cleared[2]
           /\ current_batch_id' = cleared[3]
           /\ IF Len(kept) = 0
              THEN /\ is_converting' = FALSE
                   /\ complete_pending' = TRUE
                   /\ ct_pc' = "finished"
                   /\ h_last' = "clean"
              ELSE /\ ct_pc' = "size"
                   /\ UNCHANGED << is_converting, complete_pending, h_last >>
    /\ UNCHANGED << cfg, pf, totalsVars, localVars,
                    fs, max_concurrent_conversions, max_workers, convert_button, scan_button,
                    stop_button, successful, failed, job_pc, job_res, consumed, stopped,
                    nbatch, nrestart, h_invoked, h_conv_ok, h_savefail, h_written,
                    h_counted, h_pending, h_posted, h_prev, h_resume, h_skipped, h_emptyok,
                    h_readfail, h_failed,
                    h_latestart >>

\* sizing of the pool, construction of the executor and submission of every
\* job; conversion_thread has no exception handler around the construction
CT_Size ==
    /\ ct_pc = "size"
    /\ \E mem \in MemSamples, cpu \in CpuSamples :
          LET resource_limit == check_system_resources(CpuCores, cfg, mem, cpu)
          IN  max_workers' = EffectiveWorkers(max_concurrent_conversions, resource_limit)
    /\ successful' = 0 /\ failed' = 0 /\ completed' = 0
    /\ total_original_size' = 0 /\ total_chd_size' = 0
    /\ IF ExecutorAccepts(max_workers')
       THEN /\ job_pc' = [j \in 1..total |-> "queued"]
            /\ job_res' = [j \in 1..total |-> "pending"]
            /\ job_tmp' = [j \in 1..total |-> 0]
            /\ job_snap' = [j \in 1..total |-> {}]
            /\ ct_pc' = "run"
       ELSE \* the ValueError ends the thread: nothing below line 3887 runs
            /\ ct_pc' = "crashed"
            /\ UNCHANGED << job_pc, job_res, job_tmp, job_snap >>
    /\ UNCHANGED << cfg, pf, fs, ledger_file, completed_files, current_batch_id, is_converting,
                    max_concurrent_conversions, uiVars, game_files, original_count,
                    skipped_count, total, consumed, stopped, nbatch, nrestart, histVars >>

\* one iteration of "for future in as_completed(futures)"
CT_Collect ==
    /\ ct_pc = "run"
    /\ \E j \in Jobs \ consumed :
          /\ job_pc[j] = "done"
          /\ IF ~is_converting
             THEN /\ stopped' = TRUE
                  /\ job_pc' = [k \in Jobs |-> IF job_pc[k] = "queued" THEN "cancelled"
                                               ELSE job_pc[k]]
                  /\ ct_pc' = "join"
                  /\ UNCHANGED << successful, failed, completed, consumed, h_counted >>
             ELSE LET t == Tally(job_res[j], successful, failed, completed)
                  IN  /\ successful' = t[1]
                      /\ failed' = t[2]
                      /\ completed' = t[3]
                      /\ consumed' = consumed \cup {j}
                      /\ h_counted' = IF t[1] > successful THEN h_counted \cup {j}
                                      ELSE h_counted
                      /\ ct_pc' = IF consumed' = Jobs THEN "join" ELSE "run"
                      /\ UNCHANGED << stopped, job_pc >>
    /\ UNCHANGED << cfg, pf, totalsVars, localVars,
                    fs, ledger_file, completed_files, current_batch_id, is_converting,
                    max_concurrent_conversions, max_workers, uiVars, game_files,
                    original_count, skipped_count, total, job_res, nbatch, nrestart,
                    h_discovered, h_ledger, h_invoked, h_conv_ok, h_savefail, h_written,
                    h_pending, h_posted, h_last, h_prev, h_resume, h_skipped, h_emptyok,
                    h_readfail, h_failed,
                    h_latestart >>

\* leaving the "with ThreadPoolExecutor" block: shutdown(wait=True)
CT_Join ==
    /\ ct_pc = "join"
    /\ \A j \in Jobs : job_pc[j] \in {"done", "cancelled"}
    /\ ct_pc' = "summary"
    /\ UNCHANGED << cfg, pf, totalsVars, localVars,
                    fs, ledger_file, completed_files, current_batch_id, is_converting,
                    max_concurrent_conversions, max_workers, uiVars, game_files, countVars,
                    job_pc, job_res, consumed, stopped, nbatch, nrestart, histVars >>

\* the summary, the conditional clear_progress and the end of the thread
CT_Summary ==
    /\ ct_pc = "summary"
    /\ LET cleared == IF ShouldClear(failed, total, successful)
                      THEN clear_progress(ledger_file, completed_files, current_batch_id)
                      ELSE << ledger_file, completed_files, current_batch_id >>
       IN  /\ ledger_file' = cleared[1]
           /\ completed_files' = cleared[2]
           /\ current_batch_id' = cleared[3]
    /\ is_converting' = FALSE
    /\ complete_pending' = TRUE
    /\ ct_pc' = "finished"
    /\ h_last' = IF failed = 0 /\ ~stopped THEN "clean" ELSE "other"
    /\ UNCHANGED << cfg, pf, totalsVars, localVars,
                    fs, max_concurrent_conversions, max_workers, convert_button, scan_button,
                    stop_button, game_files, countVars, job_pc, job_res, consumed, stopped,
                    nbatch, nrestart, h_discovered, h_ledger, h_invoked, h_conv_ok,
                    h_savefail, h_written, h_counted, h_pending, h_posted, h_prev,
                    h_resume, h_skipped, h_emptyok,
                    h_readfail, h_failed,
                    h_latestart >>

\* ------------------------------------- pool workers: process_single_file
\* a pool thread takes the oldest queued job and runs the start check
W_Start ==
    /\ ct_pc = "run"
    /\ Cardinality(Active) < PoolLimit
    /\ \E j \in Jobs :
          /\ job_pc[j] = "queued"
          /\ \A k \in Jobs : job_pc[k] = "queued" => j <= k
          /\ IF StartCheck(is_converting)
             THEN /\ job_pc' = [job_pc EXCEPT ![j] = "gate"]
                  /\ UNCHANGED job_res
             ELSE /\ job_pc' = [job_pc EXCEPT ![j] = "done"]
                  /\ job_res' = [job_res EXCEPT ![j] = "None"]
    /\ UNCHANGED << cfg, pf, totalsVars, localVars,
                    fs, ledger_file, completed_files, current_batch_id, is_converting,
                    max_concurrent_conversions, max_workers, uiVars, ct_pc, game_files,
                    countVars, consumed, stopped, nbatch, nrestart, histVars >>

\* _wait_for_memory_pressure returns (its loop is the subject of SpecGate)
W_Gate ==
    /\ \E j \in Jobs :
          /\ job_pc[j] = "gate"
          /\ job_pc' = [job_pc EXCEPT ![j] = "conv"]
    /\ UNCHANGED << cfg, pf, totalsVars, localVars,
                    fs, ledger_file, completed_files, current_batch_id, is_converting,
                    max_concurrent_conversions, max_workers, uiVars, ct_pc, game_files,
                    countVars, job_res, consumed, stopped, nbatch, nrestart, histVars >>

\* convert_game up to the call of subprocess.run: the output path, the
\* "already exists" return, the stat() calls outside the try block (raises)
W_Convert ==
    /\ \E j \in Jobs, raises \in (IF cfg.stat_raises THEN BOOLEAN ELSE {FALSE}) :
          /\ job_pc[j] = "conv"
          /\ LET p == game_files[j]
                 out == OutputPath(p, cfg)
                 exists == out \in fs
                 res == IF OutputExt(p, cfg) = "none" THEN "False"
                        ELSE IF p.e = "iso" /\ raises THEN "exc"
                        ELSE IF exists THEN "True"
                        ELSE IF raises THEN "exc"
                        ELSE IF ~ToolConfigured(p, cfg) THEN "False"
                        ELSE "pending"
             IN  /\ job_res' = [job_res EXCEPT ![j] = res]
                 /\ job_pc' = [job_pc EXCEPT ![j] = CASE res = "pending" -> "run"
                                                      [] res = "exc" -> "done"
                                                      [] OTHER -> "post"]
                 /\ h_invoked' = IF res = "pending" THEN h_invoked \cup {j} ELSE h_invoked
                 /\ h_skipped' = IF res = "True" THEN h_skipped \cup {j} ELSE h_skipped
                 /\ h_latestart' = IF res = "pending" /\ ~is_converting
                                   THEN h_latestart \cup {j} ELSE h_latestart
    /\ UNCHANGED << cfg, pf, totalsVars, localVars,
                    fs, ledger_file, completed_files, current_batch_id, is_converting,
                    max_concurrent_conversions, max_workers, uiVars, ct_pc, game_files,
                    countVars, consumed, stopped, nbatch, nrestart, h_discovered, h_ledger,
                    h_conv_ok, h_savefail, h_written, h_counted, h_pending, h_posted,
                    h_last, h_prev, h_resume, h_emptyok, h_readfail, h_failed >>

\* subprocess.run returns: exit 0 with the output present ("ok"), exit 0
\* with an output of zero bytes ("empty"), or a failure (non-zero exit,
\* timeout, exception) that may leave a partial output; the test of line 3604
W_RunDone ==
    /\ \E j \in Jobs, outcome \in cfg.run_outcomes :
          /\ job_pc[j] = "run"
          /\ LET out == OutputPath(game_files[j], cfg)
             IN  fs' = IF outcome = "fail" THEN fs ELSE fs \cup {out}
          /\ IF RunSucceeded(outcome)
             THEN /\ job_pc' = [job_pc EXCEPT ![j] = "ld1"]
                  /\ h_conv_ok' = h_conv_ok \cup {j}
                  /\ h_emptyok' = IF outcome = "empty" THEN h_emptyok \cup {j} ELSE h_emptyok
                  /\ h_failed' = h_failed \ {Str(game_files[j])}
                  /\ UNCHANGED job_res
             ELSE /\ job_pc' = [job_pc EXCEPT ![j] = "post"]
                  /\ job_res' = [job_res EXCEPT ![j] = "False"]
                  /\ h_failed' = h_failed \cup {Str(game_files[j])}
                  /\ UNCHANGED << h_conv_ok, h_emptyok >>
          /\ h_latestart' = h_latestart \ {j}
    /\ UNCHANGED << cfg, pf, totalsVars, localVars, ledger_file, completed_files,
                    current_batch_id, is_converting, max_concurrent_conversions,
                    max_workers, uiVars, ct_pc, game_files, countVars, consumed, stopped,
                    nbatch, nrestart, h_discovered, h_ledger, h_invoked, h_savefail,
                    h_written, h_counted, h_pending, h_posted, h_last, h_prev, h_resume,
                    h_skipped, h_readfail >>

\* "self.total_original_size += original_size" and "self.total_chd_size +=
\* new_size", run by the pool threads without a lock: the load of the
\* attribute ...
W_TotalLoad ==
    /\ \E j \in Jobs :
          /\ job_pc[j] \in {"ld1", "ld2"}
          /\ job_tmp' = [job_tmp EXCEPT ![j] = IF job_pc[j] = "ld1" THEN total_original_size
                                               ELSE total_chd_size]
          /\ job_pc' = [job_pc EXCEPT ![j] = IF job_pc[j] = "ld1" THEN "st1" ELSE "st2"]
    /\ UNCHANGED << cfg, pf, totalsVars, job_snap, fs, ledger_file, completed_files,
                    current_batch_id, is_converting, max_concurrent_conversions,
                    max_workers, uiVars, ct_pc, game_files, countVars, job_res, consumed,
                    stopped, nbatch, nrestart, histVars >>

\* ... and the store of the sum
W_TotalStore ==
    /\ \E j \in Jobs :
          /\ job_pc[j] \in {"st1", "st2"}
          /\ IF job_pc[j] = "st1"
             THEN /\ total_original_size' = job_tmp[j] + original_size(game_files[j])
                  /\ UNCHANGED total_chd_size
             ELSE /\ total_chd_size' = job_tmp[j] + new_size(j \in h_emptyok)
                  /\ UNCHANGED total_original_size
          /\ job_tmp' = [job_tmp EXCEPT ![j] = 0]
          /\ job_pc' = [job_pc EXCEPT ![j] = IF job_pc[j] = "st1" THEN "ld2" ELSE "mark"]
    /\ UNCHANGED << cfg, pf, job_snap, fs, ledger_file, completed_files,
                    current_batch_id, is_converting, max_concurrent_conversions,
                    max_workers, uiVars, ct_pc, game_files, countVars, job_res, consumed,
                    stopped, nbatch, nrestart, histVars >>

\* self.completed_files.add(str(path))
W_Mark ==
    /\ \E j \in Jobs :
          /\ job_pc[j] = "mark"
          /\ completed_files' = completed_files \cup {Str(game_files[j])}
          /\ job_pc' = [job_pc EXCEPT ![j] = "save"]
    /\ UNCHANGED << cfg, pf, totalsVars, localVars, fs, ledger_file, current_batch_id,
                    is_converting, max_concurrent_conversions, max_workers, uiVars, ct_pc,
                    game_files, countVars, job_res, consumed, stopped, nbatch, nrestart,
                    histVars >>

\* save_progress, first half: the dict "data" with list(self.completed_files)
W_Save ==
    /\ \E j \in Jobs :
          /\ job_pc[j] = "save"
          /\ job_snap' = [job_snap EXCEPT ![j] = completed_files]
          /\ job_pc' = [job_pc EXCEPT ![j] = "write"]
    /\ UNCHANGED << cfg, pf, totalsVars, job_tmp, fs, ledger_file, completed_files,
                    current_batch_id, is_converting, max_concurrent_conversions,
                    max_workers, uiVars, ct_pc, game_files, countVars, job_res, consumed,
                    stopped, nbatch, nrestart, histVars >>

\* save_progress, second half: open(progress_file, 'w') and json.dump(data),
\* which may fail (the exception is logged), and "return True" of convert_game
W_Write ==
    /\ \E j \in Jobs, ok \in (IF cfg.ledger_io_fails THEN BOOLEAN ELSE {TRUE}) :
          /\ job_pc[j] = "write"
          /\ IF ok
             THEN /\ ledger_file' = SavedData(current_batch_id, job_snap[j])
                  /\ h_written' = h_written \cup ledger_file'.completed_files
                  /\ UNCHANGED h_savefail
             ELSE /\ h_savefail' = h_savefail \cup {j}
                  /\ UNCHANGED << ledger_file, h_written >>
          /\ job_snap' = [job_snap EXCEPT ![j] = {}]
          /\ job_res' = [job_res EXCEPT ![j] = SaveResult(ok)]
          /\ job_pc' = [job_pc EXCEPT ![j] = "post"]
    /\ UNCHANGED << cfg, pf, totalsVars, job_tmp, fs, completed_files, current_batch_id,
                    is_converting, max_concurrent_conversions, max_workers, uiVars, ct_pc,
                    game_files, countVars, consumed, stopped, nbatch, nrestart,
                    h_discovered, h_ledger, h_invoked, h_conv_ok, h_counted, h_pending,
                    h_posted, h_last, h_prev, h_resume, h_skipped, h_emptyok, h_readfail, h_failed,
                    h_latestart >>

\* back in process_single_file: the post-success action, then the return
W_Post ==
    /\ \E j \in Jobs :
          /\ job_pc[j] = "post"
          /\ LET p == game_files[j]
                 act == job_res[j] = "True" /\ (cfg.delete_originals \/ cfg.move_to_backup)
             IN  /\ fs' = IF job_res[j] # "True" THEN fs
                          ELSE IF cfg.delete_originals THEN fs \ {p}
                          ELSE IF cfg.move_to_backup /\ p \in fs
                               THEN (fs \ {p}) \cup {BackupDest(p)}
                          ELSE fs
                 /\ h_posted' = IF act THEN h_posted \cup {j} ELSE h_posted
          /\ job_pc' = [job_pc EXCEPT ![j] = "done"]
    /\ UNCHANGED << cfg, pf, totalsVars, localVars,
                    ledger_file, completed_files, current_batch_id, is_converting,
                    max_concurrent_conversions, max_workers, uiVars, ct_pc, game_files,
                    countVars, job_res, consumed, stopped, nbatch, nrestart, h_discovered,
                    h_ledger, h_invoked, h_conv_ok, h_savefail, h_written, h_counted,
                    h_pending, h_last, h_prev, h_resume, h_skipped, h_emptyok,
                    h_readfail, h_failed,
                    h_latestart >>

\* --------------------------------------------------- process kill, relaunch
\* the process dies at any point and is started again: __init__ runs, with
\* load_progress (the file, when there is one, may be unreadable);
\* converters that were running may have left their output
Restart ==
    /\ nrestart < MaxRestarts
    /\ nrestart' = nrestart + 1
    /\ \E readable \in (IF cfg.ledger_io_fails THEN BOOLEAN ELSE {TRUE}) :
          /\ (~ledger_file.exists => readable)
          /\ completed_files' = load_progress(ledger_file, readable)[1]
          /\ current_batch_id' = load_progress(ledger_file, readable)[2]
          /\ h_readfail' = ~readable
          /\ h_resume' = IF ct_pc \in {"run", "join"} /\ h_savefail = {} /\ readable
                         THEN [on |-> TRUE, M |-> original_count,
                               N |-> Cardinality({ p \in h_discovered :
                                        ledger_file.exists
                                        /\ Str(p) \in ledger_file.completed_files })]
                         ELSE [on |-> FALSE, M |-> 0, N |-> 0]
    /\ \E left \in SUBSET { OutputPath(game_files[j], cfg) : j \in { k \in Jobs : job_pc[k] = "run" } } :
          fs' = fs \cup left
    /\ is_converting' = FALSE
    /\ max_workers' = CpuCores
    /\ convert_button' = FALSE
    /\ scan_button' = TRUE
    /\ stop_button' = FALSE
    /\ complete_pending' = FALSE
    /\ ct_pc' = "idle"
    /\ game_files' = << >>
    /\ original_count' = 0 /\ skipped_count' = 0 /\ total' = 0
    /\ successful' = 0 /\ failed' = 0 /\ completed' = 0
    /\ job_pc' = NoJobs /\ job_res' = NoJobs
    /\ consumed' = {}
    /\ stopped' = FALSE
    /\ h_discovered' = {} /\ h_ledger' = {} /\ h_invoked' = {} /\ h_conv_ok' = {}
    /\ h_savefail' = {} /\ h_written' = {} /\ h_counted' = {} /\ h_pending' = {}
    /\ h_posted' = {} /\ h_skipped' = {} /\ h_emptyok' = {} /\ h_latestart' = {}
    /\ h_last' = "none" /\ h_prev' = "none"
    /\ total_original_size' = 0 /\ total_chd_size' = 0
    /\ job_tmp' = NoJobs /\ job_snap' = NoJobs
    /\ UNCHANGED << cfg, pf, ledger_file, max_concurrent_conversions, nbatch, h_failed >>

Next ==
    \/ start_conversion
    \/ stop_conversion
    \/ conversion_complete
    \/ scan_directory
    \/ on_concurrent_change
    \/ CT_Discover
    \/ CT_Size
    \/ CT_Collect
    \/ CT_Join
    \/ CT_Summary
    \/ W_Start
    \/ W_Gate
    \/ W_Convert
    \/ W_RunDone
    \/ W_TotalLoad
    \/ W_TotalStore
    \/ W_Mark
    \/ W_Save
    \/ W_Write
    \/ W_Post
    \/ Restart

Spec == Init /\ [][Next]_vars

\* ------------------------------------------- the batch under fair scheduling
\* The process is not killed; the conversion thread and the pool threads are
\* scheduled by the operating system, a converter run returns (exit or
\* timeout), and the Tk main loop runs the callbacks queued with after().
\* The user's actions (the buttons, the slider) are under no obligation.
LiveScenarios == { sc \in Scenarios : sc.cfg.config_file.exists \/ ~sc.cfg.recursive }

InitLive ==
    /\ Init
    /\ \E sc \in LiveScenarios : cfg = sc.cfg /\ fs = sc.files

NextLive ==
    \/ start_conversion
    \/ stop_conversion
    \/ conversion_complete
    \/ scan_directory
    \/ on_concurrent_change
    \/ CT_Discover
    \/ CT_Size
    \/ CT_Collect
    \/ CT_Join
    \/ CT_Summary
    \/ W_Start
    \/ W_Gate
    \/ W_Convert
    \/ W_RunDone
    \/ W_TotalLoad
    \/ W_TotalStore
    \/ W_Mark
    \/ W_Save
    \/ W_Write
    \/ W_Post

FairScheduling ==
    /\ WF_vars(conversion_complete)
    /\ WF_vars(CT_Discover) /\ WF_vars(CT_Size) /\ WF_vars(CT_Collect)
    /\ WF_vars(CT_Join) /\ WF_vars(CT_Summary)
    /\ WF_vars(W_Start) /\ WF_vars(W_Gate) /\ WF_vars(W_Convert) /\ WF_vars(W_RunDone)
    /\ WF_vars(W_TotalLoad) /\ WF_vars(W_TotalStore) /\ WF_vars(W_Mark)
    /\ WF_vars(W_Save) /\ WF_vars(W_Write) /\ WF_vars(W_Post)

SpecLive == InitLive /\ [][NextLive]_vars /\ FairScheduling

\* ------------------------------------ the sizing computation, studied alone
\* One sizing of a pool on a machine of total_cores cores, with the slider
\* at limit and one sample of memory and cpu use; psutil FALSE stands for
\* psutil missing or a sample that raises (both return self.cpu_cores).
PercentRange == 0..100

InitSizing ==
    /\ Constructed
    /\ cfg = Defaults
    /\ \E n \in 1..MaxCoreCount, a \in BOOLEAN :
       \E l \in 1..n, m \in (IF a THEN PercentRange ELSE {0}),
          c \in (IF a THEN PercentRange ELSE {0}) :
          pf = [op |-> "args", total_cores |-> n, limit |-> l, psutil |-> a,
                mem |-> m, cpu |-> c]

\* resource_limit = self.check_system_resources()
RM_check_system_resources ==
    /\ pf.op = "args"
    /\ pf' = [op |-> "check_system_resources", total_cores |-> pf.total_cores,
              limit |-> pf.limit, psutil |-> pf.psutil, mem |-> pf.mem, cpu |-> pf.cpu,
              result |-> check_system_resources(cpu_cores_of(pf.total_cores),
                                                [cfg EXCEPT !.psutil = pf.psutil],
                                                pf.mem, pf.cpu)]
    /\ UNCHANGED mainVars

\* self.max_workers = min(self.max_concurrent_conversions, resource_limit)
RM_Sizing ==
    /\ pf.op = "check_system_resources"
    /\ pf' = [pf EXCEPT !.op = "sizing",
                        !.result = EffectiveWorkers(pf.limit, pf.result)]
    /\ UNCHANGED mainVars

NextSizing ==
    \/ RM_check_system_resources
    \/ RM_Sizing

SpecSizing == InitSizing /\ [][NextSizing]_vars

\* ------------------------------- _wait_for_memory_pressure, studied alone
\* One call by a pool worker: pc is the position in the function, waited
\* the local of that name, polls the samples taken so far, sample the last
\* mem.percent read (0 before the first), raised whether psutil raised,
\* converting what self.is_converting reads.
GateSamples == {50, 94, 95, 99}

InitGate ==
    /\ Constructed
    /\ cfg = Defaults
    /\ \E a \in BOOLEAN :
          pf = [op |-> "gate", pc |-> "entry", psutil |-> a, waited |-> 0, polls |-> 0,
                sample |-> 0, raised |-> FALSE, converting |-> TRUE]

\* the condition of the while loop
GateContinueForever(waited, converting) == converting
GateContinue(waited, converting) == waited < max_wait /\ converting

\* "if not PSUTIL_AVAILABLE: return", else waited = 0
Gate_Enter ==
    /\ pf.op = "gate" /\ pf.pc = "entry"
    /\ pf' = [pf EXCEPT !.pc = IF pf.psutil THEN "loop" ELSE "convert_game"]
    /\ UNCHANGED mainVars

\* one evaluation of the loop condition and, when it holds, one iteration:
\* the sample, the return below the critical percentage or on an
\* exception, else gc.collect(), the sleep and the increment of waited
Gate_Poll ==
    /\ pf.op = "gate" /\ pf.pc = "loop"
    /\ IF ~GateContinue(pf.waited, pf.converting)
       THEN pf' = [pf EXCEPT !.pc = "convert_game"]
       ELSE \E smp \in GateSamples, raises \in BOOLEAN :
               pf' = [pf EXCEPT !.polls = pf.polls + 1,
                                !.sample = IF raises THEN pf.sample ELSE smp,
                                !.raised = raises,
                                !.pc = IF raises \/ smp < ram_critical_percent
                                       THEN "convert_game" ELSE "loop",
                                !.waited = IF raises \/ smp < ram_critical_percent
                                           THEN pf.waited ELSE pf.waited + wait_interval]
    /\ UNCHANGED mainVars

\* stop_conversion runs while the worker waits
Gate_Stop ==
    /\ pf.op = "gate" /\ pf.pc \in {"entry", "loop"}
    /\ pf.converting
    /\ pf' = [pf EXCEPT !.converting = FALSE]
    /\ UNCHANGED mainVars

NextGate ==
    \/ Gate_Enter
    \/ Gate_Poll
    \/ Gate_Stop

\* the worker thread keeps running: a sleep returns, the loop is re-entered
SpecGate == InitGate /\ [][NextGate]_vars /\ WF_vars(Gate_Enter) /\ WF_vars(Gate_Poll)

\* --------------------------------------- detect_iso_system, studied alone
\* A path segment is the sequence of its words; the file name of an ISO is
\* its words followed by "iso".  A size is in tenths of a GB (2^30 bytes).
MaxFolders == 2        \* folders of full_path above the file

PSP_ID_PATTERNS == {"ulus", "ules", "uljm", "uljs", "ucus", "uces", "uckr", "ulks"}
PS2_ID_PATTERNS == {"slus", "sles", "scus", "sces", "slpm", "slps", "scps"}

FolderNames == { << "roms" >>, << "psp" >>, << "ps2" >>, << "playstation", "2" >>,
                 << "playstation2" >>, << "my", "psp" >>, << "old", "playstation", "2" >>,
                 << "sony", "playstation", "2", "games" >>,
                 << "playstation", "portable" >> }
IsoNames == { << "game" >>, << "ulus", "game" >>, << "game", "slus" >>,
              << "slus", "ulus" >>, << "psp" >>, << "playstation", "portable", "demo" >>,
              << "sony", "playstation", "2", "demo" >> }
IsoSizes == {0, 5, 6, 20, 29, 30, 47}
FolderPaths == UNION { [1..n -> FolderNames] : n \in 0..MaxFolders }

\* "pat in part" on the words of a segment
Contains(part, pat) ==
    \E i \in 1..(Len(part) - Len(pat) + 1) : SubSeq(part, i, i + Len(pat) - 1) = pat

\* re.split(r'[\\/]', str(full_path).lower()): the folders, then the file name
path_parts(folders, name) == Append(folders, Append(name, "iso"))

\* the two tests of the loop body on one part
part_system(part) ==
    IF part = << "psp" >> \/ Contains(part, << "playstation", "portable" >>) THEN "PSP"
    ELSE IF \/ part = << "ps2" >> \/ part = << "playstation", "2" >>
            \/ part = << "playstation2" >>
            \/ Contains(part, << "sony", "playstation", "2" >>) THEN "PlayStation 2"
    ELSE "None"

\* "for part in path_parts": the first part that names a system
RECURSIVE first_system(_)
first_system(parts) ==
    IF parts = << >> THEN "None"
    ELSE IF part_system(Head(parts)) # "None" THEN part_system(Head(parts))
    ELSE first_system(Tail(parts))

\* the size heuristic
size_system(size) ==
    IF size >= 30 THEN "PlayStation 2" ELSE IF size <= 5 THEN "PSP" ELSE "None"

detect_iso_system(name, size, parts) ==
    IF \E w \in Range(name) : w \in PSP_ID_PATTERNS THEN "PSP"
    ELSE IF \E w \in Range(name) : w \in PS2_ID_PATTERNS THEN "PlayStation 2"
    ELSE IF first_system(parts) # "None" THEN first_system(parts)
    ELSE size_system(size)

InitDetect ==
    /\ Constructed
    /\ cfg = Defaults
    /\ \E nm \in IsoNames, fo \in FolderPaths, sz \in IsoSizes, psp \in BOOLEAN,
          ps2 \in BOOLEAN :
          /\ psp \/ ps2
          /\ pf = [op |-> "iso", name |-> nm, folders |-> fo, size |-> sz,
                   process_psp_isos |-> psp, process_ps2_isos |-> ps2]

\* system_guess = self.detect_iso_system(path.name, iso_size, full_path=path)
RM_detect_iso_system ==
    /\ pf.op = "iso"
    /\ pf' = [op |-> "detected", name |-> pf.name, folders |-> pf.folders,
              size |-> pf.size, process_psp_isos |-> pf.process_psp_isos,
              process_ps2_isos |-> pf.process_ps2_isos,
              system_guess |-> detect_iso_system(pf.name, pf.size,
                                                 path_parts(pf.folders, pf.name))]
    /\ UNCHANGED mainVars

\* the branches of convert_game on the two check boxes and system_guess
RM_convert_policy ==
    /\ pf.op = "detected"
    /\ pf' = [op |-> "policy", name |-> pf.name, folders |-> pf.folders,
              size |-> pf.size, process_psp_isos |-> pf.process_psp_isos,
              process_ps2_isos |-> pf.process_ps2_isos, system_guess |-> pf.system_guess,
              treat_psp |-> treat_psp(pf.process_psp_isos, pf.process_ps2_isos,
                                      pf.system_guess),
              warned |-> default_warning(pf.process_psp_isos, pf.process_ps2_isos,
                                         pf.system_guess)]
    /\ UNCHANGED mainVars

NextDetect ==
    \/ RM_detect_iso_system
    \/ RM_convert_policy

SpecDetect == InitDetect /\ [][NextDetect]_vars

TypeOK ==
    /\ ct_pc \in {"idle", "discover", "size", "run", "join", "summary", "finished",
                "crashed"}
    /\ \A j \in Jobs : job_pc[j] \in {"queued", "gate", "conv", "run", "ld1", "st1",
                                      "ld2", "st2", "mark", "save", "write", "post",
                                      "done", "cancelled"}
    /\ \A j \in Jobs : job_res[j] \in {"pending", "None", "True", "False", "exc"}
    /\ consumed \subseteq Jobs

\* ------------------------------------------------------------ properties
BatchFiltered == ct_pc \in {"size", "run", "join", "summary", "finished"}
BatchSubmitted == ct_pc \in {"run", "join", "summary", "finished"}
Finished == ct_pc = "finished"
Sum == successful + failed + skipped_count

\* C1: the jobs submitted to the pool are exactly the discovered paths that
\* were not in the completed set when the filter ran, each once, and the
\* "already completed" count is the number of discovered paths that were.
C1_SubmittedAreUnfinished ==
    BatchFiltered =>
        /\ Range(game_files) = { p \in h_discovered : Str(p) \notin h_ledger }
        /\ Len(game_files) = Cardinality(Range(game_files))
        /\ skipped_count = Cardinality({ p \in h_discovered : Str(p) \in h_ledger })
        /\ (BatchSubmitted => Jobs = 1..Len(game_files))

C1_Witness ==
    /\ ct_pc = "run"
    /\ skipped_count > 0
    /\ Len(game_files) > 0

\* C2: the first batch after a restart that interrupted a batch over M
\* discovered jobs, N of them recorded in the ledger file, has exactly
\* M - N jobs to submit.
C2_ResumeExact ==
    (h_resume.on /\ BatchFiltered) => total = h_resume.M - h_resume.N

\* C3: a batch run right after a batch that ended clean, and itself neither
\* cancelled nor hit by a failure, reports no success, reports every
\* discovered job as skipped-already-done and invokes no converter.
C3_SecondRunAllSkipped ==
    (Finished /\ h_prev = "clean" /\ ~stopped /\ failed = 0) =>
        /\ successful = 0
        /\ skipped_count = original_count
        /\ h_invoked = {}

\* C4 (as stated): at the end of every batch, successful + failed +
\* skipped-already-done equals the number of discovered jobs.
C4_AggregateExact ==
    Finished => Sum = original_count

\* C4 (amended): at the end of every batch the sum is at most the number of
\* discovered jobs, and equal to it whenever the dispatcher loop was not
\* left through the cancellation break (worker exceptions included).
C4_AggregateBound ==
    Finished => /\ Sum <= original_count
                /\ (~stopped => Sum = original_count)

C4_Witness ==
    /\ Finished
    /\ ~stopped
    /\ successful > 0
    /\ \E j \in Jobs : job_res[j] = "exc"

\* C5: while a batch runs, the number of jobs between the start check and
\* their return never exceeds the pool size computed at sizing, and that
\* size does not change while the batch runs, whatever the slider does.
C5_WorkerBound ==
    /\ [](ct_pc \in {"run", "join"} => Cardinality(Active) <= max_workers)
    /\ [][(ct_pc \in {"run", "join"} /\ ct_pc' \in {"run", "join", "summary"})
            => max_workers' = max_workers]_vars

C5_Witness ==
    /\ ct_pc = "run"
    /\ Cardinality(Active) = max_workers
    /\ max_concurrent_conversions > max_workers
    /\ \E j \in Jobs : job_pc[j] = "queued"

\* C6: two jobs of a batch with distinct source paths have distinct
\* output paths.
C6_DistinctOutputs ==
    \A i, j \in DOMAIN game_files :
        i # j => OutputPath(game_files[i], cfg) # OutputPath(game_files[j], cfg)

\* C7: the ledger file is removed only in a step after which the batch's
\* failure count is 0, and the end of a batch with a failure leaves the
\* completed set and the ledger file as they were, with every job converted
\* in that batch in the completed set.
C7_ClearOnlyWithoutFailure ==
    /\ [][(ledger_file.exists /\ ~ledger_file'.exists) => failed' = 0]_vars
    /\ [][(ct_pc = "summary" /\ ct_pc' = "finished" /\ failed > 0)
            => /\ UNCHANGED << completed_files, ledger_file >>
               /\ \A j \in h_conv_ok : Str(game_files[j]) \in completed_files']_vars

C7_Witness ==
    /\ Finished
    /\ failed > 0
    /\ h_conv_ok # {}
    /\ ledger_file.exists
    /\ \A j \in h_conv_ok : Str(game_files[j]) \in ledger_file.completed_files

\* C8 (as stated): when a batch is reported clean, the path of every job
\* counted as successful has been written to the ledger file.
C8_CountedWritten ==
    (Finished /\ failed = 0) =>
        \A j \in h_counted : Str(game_files[j]) \in h_written

\* C8 (amended): as soon as a job whose converter run succeeded is counted
\* as successful, its path has been added to the completed set (and stays
\* there until the batch ends) and, unless its ledger write failed, has been
\* written to the ledger file.
C8_ConvertedWritten ==
    \A j \in h_counted \cap h_conv_ok :
        /\ (j \notin h_savefail => Str(game_files[j]) \in h_written)
        /\ (ct_pc \in {"run", "join", "summary"} => Str(game_files[j]) \in completed_files)

C8_Witness ==
    /\ Finished
    /\ failed = 0
    /\ ~stopped
    /\ \E j \in (h_counted \cap h_conv_ok) \ h_savefail : Str(game_files[j]) \in h_written

\* C9: a job that was still queued when stop_conversion ran never invokes a
\* converter and never gets a post-success action: it stays queued, is
\* cancelled, or returns None.
C9_PendingAbandoned ==
    \A j \in h_pending :
        /\ j \notin h_invoked
        /\ j \notin h_posted
        /\ job_pc[j] \in {"queued", "cancelled", "done"}
        /\ job_res[j] \in {"pending", "None"}

C9_Witness ==
    /\ Finished
    /\ \E j \in h_pending : job_pc[j] = "done" /\ job_res[j] = "None"
    /\ \E j \in h_pending : job_pc[j] = "cancelled"

\* C10: at the end of a batch every job that ran to a result (success,
\* failure or exception) has been counted in successful or failed.
C10_ResultsCollected ==
    Finished =>
        successful + failed =
            Cardinality({ j \in Jobs : job_res[j] \in {"True", "False", "exc"} })

\* jobs inside the mark-completed step: the add to the completed set
\* followed by save_progress
InMarkStep == { j \in Jobs : job_pc[j] \in {"mark", "save", "write"} }

\* C11: ledger updates are serialized: whenever no worker is inside the
\* mark-completed step (and no ledger write of the batch has failed), the
\* ledger file holds the path of every job that has gone through the step.
C11_LedgerSerialized ==
    (ct_pc \in {"run", "join", "summary"} /\ InMarkStep = {} /\ h_savefail = {}) =>
        \A j \in h_conv_ok :
            job_pc[j] \in {"post", "done"} =>
                /\ ledger_file.exists
                /\ Str(game_files[j]) \in ledger_file.completed_files
                /\ Str(game_files[j]) \in completed_files

RECURSIVE SumOriginal(_)
SumOriginal(S) == IF S = {} THEN 0
                  ELSE LET j == CHOOSE k \in S : TRUE
                       IN  original_size(game_files[j]) + SumOriginal(S \ {j})

RECURSIVE SumNew(_)
SumNew(S) == IF S = {} THEN 0
             ELSE LET j == CHOOSE k \in S : TRUE
                  IN  new_size(j \in h_emptyok) + SumNew(S \ {j})

\* C12: when the workers of a batch have been joined, total_original_size
\* is the sum of the original sizes, and total_chd_size the sum of the
\* output sizes, of exactly the jobs whose converter run succeeded.
C12_TotalsExact ==
    (ct_pc = "summary" \/ (Finished /\ total > 0)) =>
        /\ total_original_size = SumOriginal(h_conv_ok)
        /\ total_chd_size = SumNew(h_conv_ok)

\* the threshold policy of the resource monitor, in the words of its
\* specification; Floor75(b) is floor(b * 0.75)
Floor75(b) == CHOOSE n \in 0..b : 4 * n <= 3 * b /\ 3 * b < 4 * (n + 1)
PolicyCount(b, mem, cpu) ==
    IF mem >= 90 \/ cpu >= 95 THEN Max(1, b \div 2)
    ELSE IF mem >= 75 \/ cpu >= 80 THEN Max(1, Floor75(b))
    ELSE b

\* C13: for every baseline >= 1 and every memory and cpu percentage in
\* 0..100, check_system_resources returns max(1, baseline // 2) if mem >= 90
\* or cpu >= 95, else max(1, floor(baseline * 0.75)) if mem >= 75 or
\* cpu >= 80, else baseline; the result lies between 1 and baseline.
C13_ThresholdPolicy ==
    (pf.op = "check_system_resources" /\ pf.psutil) =>
        LET baseline == cpu_cores_of(pf.total_cores)
        IN  /\ pf.result = PolicyCount(baseline, pf.mem, pf.cpu)
            /\ 1 <= pf.result
            /\ pf.result <= baseline

C13_Witness ==
    /\ pf.op = "check_system_resources"
    /\ pf.psutil
    /\ pf.total_cores = 4 /\ pf.mem = 80 /\ pf.cpu = 10
    /\ pf.result = 2

\* C14 (as stated): the worker count of a batch is min(limit,
\* recommended(baseline, snapshot)) with baseline = min(limit, cores - 1).
C14_BaselineFromLimit ==
    (pf.op = "sizing" /\ pf.psutil /\ pf.total_cores >= 2) =>
        pf.result = Min(pf.limit, PolicyCount(Min(pf.limit, pf.total_cores - 1),
                                              pf.mem, pf.cpu))

\* C14 (amended): the worker count of a batch is min(limit,
\* recommended(baseline, snapshot)) with baseline = max(1, cores - 1),
\* whatever the limit; without a snapshot it is min(limit, baseline).
C14_BaselineFromCores ==
    pf.op = "sizing" =>
        LET baseline == Max(1, pf.total_cores - 1)
        IN  pf.result = Min(pf.limit, IF pf.psutil
                                      THEN PolicyCount(baseline, pf.mem, pf.cpu)
                                      ELSE baseline)

C14_Witness ==
    /\ pf.op = "sizing"
    /\ pf.psutil
    /\ pf.total_cores = 5 /\ pf.limit = 2 /\ pf.mem = 92
    /\ pf.result = 2

\* C15: a worker leaves the memory gate after at most 30 samples, whatever
\* the samples are, and goes on to convert_game; it stays in the gate only
\* after samples at or above the critical percentage (so it leaves at the
\* first sample below it or at the first sample that raises), and without
\* psutil it leaves without sampling.
C15_GateTerminates ==
    /\ [](pf.op = "gate" => pf.polls <= 30)
    /\ <>(pf.op = "gate" /\ pf.pc = "convert_game")
    /\ []((pf.op = "gate" /\ pf.pc = "loop" /\ pf.polls > 0)
            => (~pf.raised /\ pf.sample >= ram_critical_percent))
    /\ []((pf.op = "gate" /\ ~pf.psutil) => pf.polls = 0)

C15_Witness ==
    /\ pf.op = "gate"
    /\ pf.pc = "convert_game"
    /\ pf.converting
    /\ pf.polls = 30
    /\ pf.sample = 99

\* C16: a job that finds its output already there invokes no converter,
\* raises nothing, is not added to the completed set, and returns a value
\* different from the one a converted job of the batch returns.
C16_SkipDistinct ==
    \A j \in h_skipped :
        /\ j \notin h_invoked
        /\ job_res[j] # "exc"
        /\ Str(game_files[j]) \notin completed_files
        /\ \A k \in h_conv_ok : job_res[k] = "True" => job_res[j] # job_res[k]

\* C17: a job whose converter was invoked returns True only if the
\* converter exited 0 and left a non-empty output; in every other case it
\* returns False and its path is not added to the completed set.
C17_SuccessNeedsOutput ==
    \A j \in h_invoked :
        job_pc[j] \in {"post", "done"} =>
            IF j \in h_conv_ok \ h_emptyok
            THEN job_res[j] = "True"
            ELSE /\ job_res[j] = "False"
                 /\ Str(game_files[j]) \notin completed_files
                 /\ Str(game_files[j]) \notin h_written

\* C18: a job that returns False is counted once in failed, never counted
\* as successful and never added to the completed set or the ledger file;
\* failed counts each consumed failure once, and a batch that was not
\* cancelled ends with every job consumed and successful + failed = total.
C18_FailureNotFatal ==
    /\ \A j \in Jobs :
          job_res[j] = "False" =>
              /\ j \notin h_counted
              /\ Str(game_files[j]) \notin completed_files
              /\ Str(game_files[j]) \notin h_written
    /\ failed = Cardinality({ j \in consumed : job_res[j] \in {"False", "exc"} })
    /\ (Finished /\ total > 0 /\ ~stopped) =>
          /\ consumed = Jobs
          /\ successful + failed = total

C18_Witness ==
    /\ Finished
    /\ ~stopped
    /\ successful = 1 /\ failed = 1
    /\ \E j \in h_invoked : job_res[j] = "False"
    /\ \E j \in h_conv_ok : j \in h_counted

\* a category is selected whose converter is not configured
ToolMissing(c) ==
    \/ (c.process_ps1_cues \/ c.process_ps2_cues) /\ ~c.chdman_path
    \/ c.process_ps2_isos /\ c.ps2_output_format = "CHD" /\ ~c.chdman_path
    \/ c.process_ps2_isos /\ c.ps2_output_format \in {"CSO", "ZSO"} /\ ~c.maxcso_path
    \/ c.process_psp_isos /\ ~c.maxcso_path

\* C19: with a selected category whose converter is not configured no batch
\* starts: the conversion thread stays idle, no batch id is generated and
\* no job exists.
C19_MissingToolBlocks ==
    ToolMissing(cfg) =>
        /\ ct_pc = "idle"
        /\ current_batch_id = NoBatch
        /\ nbatch = 0
        /\ Jobs = {}

\* the steps of a running batch
BatchStep ==
    \/ CT_Collect \/ CT_Join \/ CT_Summary
    \/ W_Start \/ W_Gate \/ W_Convert \/ W_RunDone \/ W_TotalLoad \/ W_TotalStore
    \/ W_Mark \/ W_Save \/ W_Write \/ W_Post

\* C20: after a launch whose load_progress failed the completed set is
\* empty, the Scan or the Convert button is enabled and the filter of the
\* batch skips nothing; a job whose
\* ledger write failed returns True and is counted as successful; a batch
\* with such a job can always take a next step, and unless cancelled it
\* ends with every job consumed.
C20_LedgerErrorNotFatal ==
    /\ (h_readfail /\ ct_pc = "idle") => (completed_files = {} /\ (scan_button \/ convert_button))
    /\ (h_readfail /\ h_prev = "none" /\ BatchFiltered) => skipped_count = 0
    /\ \A j \in h_savefail :
          /\ job_res[j] = "True"
          /\ (j \in consumed => j \in h_counted)
    /\ (h_savefail # {} /\ ct_pc \in {"run", "join", "summary"}) => ENABLED BatchStep
    /\ (h_savefail # {} /\ Finished /\ ~stopped) => consumed = Jobs

C20_Witness ==
    /\ Finished
    /\ ~stopped
    /\ h_readfail
    /\ Cardinality(Jobs) = 2
    /\ h_savefail # {}
    /\ h_savefail \subseteq h_counted
    /\ consumed = Jobs

HasId(name, ids) == \E w \in Range(name) : w \in ids
ByPrecedence(name, folders, size) ==
    IF HasId(name, PSP_ID_PATTERNS) \/ HasId(name, PS2_ID_PATTERNS)
    THEN (IF HasId(name, PSP_ID_PATTERNS) THEN {"PSP"} ELSE {})
         \cup (IF HasId(name, PS2_ID_PATTERNS) THEN {"PlayStation 2"} ELSE {})
    ELSE IF \E i \in DOMAIN folders : part_system(folders[i]) # "None"
    THEN { part_system(folders[i]) : i \in { k \in DOMAIN folders :
                                               part_system(folders[k]) # "None" } }
    ELSE IF size >= 30 THEN {"PlayStation 2"}
    ELSE IF size <= 5 THEN {"PSP"}
    ELSE {"None"}

\* C22: detection follows the precedence identifier, folder, size, Unknown;
\* an ISO without identifier or folder hint and of a size between the
\* thresholds is Unknown, and its category then comes from the enabled
\* categories alone, with the warning when both are enabled.
C22_DetectionPrecedence ==
    /\ pf.op \in {"detected", "policy"} =>
          pf.system_guess \in ByPrecedence(pf.name, pf.folders, pf.size)
    /\ (pf.op = "policy" /\ pf.system_guess = "None") =>
          /\ pf.treat_psp = ~pf.process_ps2_isos
          /\ pf.warned = (pf.process_psp_isos /\ pf.process_ps2_isos)

\* jobs of the batch that never executed: cancelled in the queue, or
\* returned by the start check
NotExecuted == { j \in Jobs : job_pc[j] = "cancelled" \/ job_res[j] = "None" }

\* C23: a batch cancelled after a job succeeded and before every job
\* executed keeps the ledger: once the batch is over the completed set and
\* the ledger file still hold the path of each job that succeeded (no ledger
\* write having failed).
C23_CancelKeepsLedger ==
    (Finished /\ stopped /\ h_conv_ok # {} /\ NotExecuted # {} /\ h_savefail = {}) =>
        \A j \in h_conv_ok :
            /\ Str(game_files[j]) \in completed_files
            /\ ledger_file.exists
            /\ Str(game_files[j]) \in ledger_file.completed_files

\* C24: a job whose latest converter run failed, in this batch or an earlier
\* one, is not counted as successful and has no post-success action applied
\* to its files, as long as no converter run for it succeeds.
C24_FailedStaysFailed ==
    \A j \in Jobs :
        Str(game_files[j]) \in h_failed => (j \notin h_counted /\ j \notin h_posted)

\* C25: in a recursive batch no file under an original_backup folder is
\* returned by discovery or submitted to the pool.
C25_BackupNotRediscovered ==
    (BatchFiltered /\ cfg.recursive) =>
        /\ \A p \in h_discovered : p.d = 0
        /\ \A j \in DOMAIN game_files : game_files[j].d = 0

\* C26: the post-success action is applied to a job only after a converter
\* run of that job succeeded in the current batch, and delete and move are
\* never both selected; a skipped, failed or cancelled job keeps its files.
C26_PostOnlyAfterConversion ==
    \A j \in h_posted :
        /\ j \in h_conv_ok
        /\ ~(cfg.delete_originals /\ cfg.move_to_backup)

\* C27: no converter process is started once cancellation was requested: no
\* running converter was invoked while is_converting was False.
C27_NoStartAfterCancel ==
    \A j \in Jobs : job_pc[j] = "run" => j \notin h_latestart

\* a batch is under way: its thread is alive (or died of an exception), or
\* its conversion_complete is still queued
BatchAlive ==
    \/ ct_pc \in {"discover", "size", "run", "join", "summary", "crashed"}
    \/ complete_pending

\* C28: from start_conversion to the matching conversion_complete the
\* Convert and Scan buttons are disabled, also after stop_conversion, and
\* no batch is started while one is under way: there is one conversion
\* thread and one pool at a time.
C28_OneBatchAtATime ==
    [][ /\ BatchAlive' => (~convert_button' /\ ~scan_button')
        /\ nbatch' # nbatch => ~BatchAlive ]_vars

C28_Witness ==
    /\ nbatch = 2
    /\ ct_pc = "run"
    /\ ~is_converting
    /\ ~stop_button
    /\ ~convert_button /\ ~scan_button

\* C29: a batch enters the running phase with a pool of at least one worker
\* and of at most max_concurrent_conversions workers, and the pool of a
\* batch past sizing has at least one worker.
C29_PoolSizeInRange ==
    [][ /\ (ct_pc = "size" /\ ct_pc' = "run") =>
              (1 <= max_workers' /\ max_workers' <= max_concurrent_conversions)
        /\ ct_pc' \in {"run", "join", "summary"} => max_workers' >= 1 ]_vars

C29_Witness ==
    /\ ct_pc = "run"
    /\ consumed = {}
    /\ max_workers = 1
    /\ max_concurrent_conversions = TotalCores

\* the end of the batch has called clear_progress
ClearCalled ==
    IF total = 0 THEN skipped_count > 0 ELSE ShouldClear(failed, total, successful)

\* C30: once a batch has ended with a call of clear_progress the completed
\* set is empty and no batch id is set, with or without a ledger file.
C30_ClearEmptiesLedger ==
    (Finished /\ ClearCalled) => (completed_files = {} /\ current_batch_id = NoBatch)

====
